---------------------------- MODULE Spec2Model ----------------------------
(***************************************************************************)
(* A model of Paint3D/paint3d/models/mesh.py: the Mesh constructor (OBJ    *)
(* and OFF dispatch, line-oriented OBJ parsing, normalization, artifact    *)
(* relocation), has_valid_uv_mapping and preprocess_gltf.                  *)
(*                                                                         *)
(* Strings that the code inspects (paths, material names, URIs) are        *)
(* sequences of one-character strings.  An optional value (Python None or  *)
(* a value) is a sequence of length 0 or 1.  Floating-point values are     *)
(* modelled by exact arithmetic: a rational is [n, d] in lowest terms, and *)
(* a tensor element after normalization is p + q / sqrt(r) with p, q, r    *)
(* rational, or NaN / infinity when the divisor is zero.                   *)
(***************************************************************************)
EXTENDS Integers, Sequences, FiniteSets, TLC

VARIABLES
    mesh_path,              \* constructor argument (line 10)
    org_mesh_path,          \* local, line 13
    is_convert,             \* local, line 13
    lines,                  \* the text of the OBJ file, one record per line
    intermediate_dir,       \* constructor argument, optional
    target_scale,           \* constructor argument
    mesh_dy,                \* constructor argument
    pc,                     \* position of the constructor
    err,                    \* the exception raised, "" when none
    vertices, faces,        \* self.vertices, self.faces (optional)
    vt, ft,                 \* self.vt, self.ft (optional)
    original_center,        \* self.original_center (optional)
    original_scale,         \* self.original_scale (optional), held as its square
    fs_log,                 \* file-system commands issued by the constructor
    uv_result,              \* outcome of the last has_valid_uv_mapping call
    gltf_files,             \* file system seen by preprocess_gltf: path -> document
    gltf_args,              \* arguments of the preprocess_gltf call
    gltf_ret                \* its outcome

vars == <<mesh_path, org_mesh_path, is_convert, lines, intermediate_dir,
          target_scale, mesh_dy, pc, err, vertices, faces, vt, ft,
          original_center, original_scale, fs_log, uv_result,
          gltf_files, gltf_args, gltf_ret>>

loadVars == <<mesh_path, org_mesh_path, is_convert, lines, intermediate_dir,
              target_scale, mesh_dy, pc, err, vertices, faces, vt, ft,
              original_center, original_scale, fs_log, uv_result>>

gltfVars == <<gltf_files, gltf_args, gltf_ret>>

----------------------------------------------------------------------------
(* Optional values and small helpers                                       *)

None == <<>>

Some(x) == <<x>>

IsNone(o) == o = <<>>

Abs(x) == IF x < 0 THEN -x ELSE x

MinOf(a, b) == IF a < b THEN a ELSE b

Take(s, k) == SubSeq(s, 1, MinOf(k, Len(s)))

Range(s) == {s[i] : i \in DOMAIN s}

SeqsUpTo(S, k) == UNION {[1..m -> S] : m \in 0..k}

----------------------------------------------------------------------------
(* Python str operations on character sequences                            *)

\* s.find(sub): the lowest index (0-based) where sub occurs in s, -1 if none
Find(s, sub) ==
    LET hits == {i \in 0..(Len(s) - Len(sub)) :
                    SubSeq(s, i + 1, i + Len(sub)) = sub}
    IN  IF hits = {} THEN -1
        ELSE CHOOSE i \in hits : \A j \in hits : i <= j

\* sub in s
Contains(s, sub) == Find(s, sub) >= 0

\* s.rfind(c) for a single character, 0-based, -1 if none
RFindChar(s, c) ==
    LET hits == {i \in 1..Len(s) : s[i] = c}
    IN  IF hits = {} THEN -1
        ELSE (CHOOSE i \in hits : \A j \in hits : j <= i) - 1

\* s.endswith(suffix)
EndsWith(s, suffix) ==
    /\ Len(suffix) <= Len(s)
    /\ SubSeq(s, Len(s) - Len(suffix) + 1, Len(s)) = suffix

\* os.path.splitext(p)[0]: the extension starts at the last dot after the
\* last slash, unless only dots precede it in the file name
SplitextRoot(p) ==
    LET sepIndex == RFindChar(p, "/")
        dotIndex == RFindChar(p, ".")
    IN  IF /\ dotIndex > sepIndex
           /\ \E k \in (sepIndex + 1)..(dotIndex - 1) : p[k + 1] # "."
        THEN SubSeq(p, 1, dotIndex)
        ELSE p

\* os.path.dirname(p) for the paths of the model (no trailing run of slashes)
Dirname(p) ==
    LET i == RFindChar(p, "/")
    IN  IF i <= 0 THEN SubSeq(p, 1, i + 1) ELSE SubSeq(p, 1, i)

\* os.path.join(a, b)
Join(a, b) ==
    IF b # <<>> /\ b[1] = "/" THEN b
    ELSE IF a = <<>> \/ a[Len(a)] = "/" THEN a \o b
    ELSE a \o <<"/">> \o b

S_obj == <<".", "o", "b", "j">>

S_off == <<".", "o", "f", "f">>

S_removed_gltf == <<"_", "r", "e", "m", "o", "v", "e", "d", ".", "g", "l", "t", "f">>

S_cvt_obj == <<"_", "c", "v", "t", ".", "o", "b", "j">>

S_material_mtl == <<"m", "a", "t", "e", "r", "i", "a", "l", ".", "m", "t", "l">>

----------------------------------------------------------------------------
(* Exact arithmetic standing for the float32 tensors                       *)

RECURSIVE GCD(_, _)
GCD(a, b) == IF b = 0 THEN a ELSE GCD(b, a % b)

\* the rational n/d (d # 0) in lowest terms with a positive denominator
Rat(n, d) ==
    LET g == GCD(Abs(n), Abs(d))
        s == IF d < 0 THEN -1 ELSE 1
    IN  [n |-> (s * n) \div g, d |-> (s * d) \div g]

RInt(k) == [n |-> k, d |-> 1]

RAdd(a, b) == Rat(a.n * b.d + b.n * a.d, a.d * b.d)

RSub(a, b) == Rat(a.n * b.d - b.n * a.d, a.d * b.d)

RMul(a, b) == Rat(a.n * b.n, a.d * b.d)

RLess(a, b) == a.n * b.d < b.n * a.d

RECURSIVE RSum(_)
RSum(s) == IF s = <<>> THEN RInt(0) ELSE RAdd(Head(s), RSum(Tail(s)))

\* the largest element of a non-empty sequence of rationals
RMax(s) == CHOOSE x \in Range(s) : \A y \in Range(s) : ~RLess(x, y)

\* a tensor element: p + q / sqrt(r), or NaN, or an infinity
Fin(p, q, r) == [k |-> "fin", p |-> p, q |-> q, r |-> r]

NaN == [k |-> "nan", p |-> RInt(0), q |-> RInt(0), r |-> RInt(1)]

Inf(sign) == [k |-> "inf", p |-> RInt(sign), q |-> RInt(0), r |-> RInt(1)]

\* x / sqrt(s) for a rational x and the norm sqrt(s): IEEE division, so a
\* zero divisor yields NaN (0/0) or a signed infinity
DivBySqrt(x, s) ==
    IF s.n # 0 THEN Fin(RInt(0), x, s)
    ELSE IF x.n = 0 THEN NaN
    ELSE Inf(IF x.n > 0 THEN 1 ELSE -1)

\* e * t for a rational t > 0
MulBy(e, t) ==
    IF e.k = "fin" THEN Fin(RMul(e.p, t), RMul(e.q, t), e.r) ELSE e

\* e + t for a rational t
AddTo(e, t) ==
    IF e.k = "fin" THEN Fin(RAdd(e.p, t), e.q, e.r) ELSE e

----------------------------------------------------------------------------
(* The OBJ file: one record per text line.  tag is what the line starts    *)
(* with, nums the numbers after it, parts the corners of a face line; a    *)
(* corner is the list of its '/'-separated fields, a field being <<>> when *)
(* empty and <<k>> when it reads as the integer k.                         *)

VLine(c) == [tag |-> "v", nums |-> c, parts |-> <<>>]

VtLine(c) == [tag |-> "vt", nums |-> c, parts |-> <<>>]

FLine(parts) == [tag |-> "f", nums |-> <<>>, parts |-> parts]

\* lines 22-25
EmptyAcc == [vertices |-> <<>>, faces |-> <<>>, uvs |-> <<>>, uv_indices |-> <<>>]

\* lines 39, 43: int(indices[0]) - 1 for every corner
FaceVertices(f_parts) == [i \in 1..Len(f_parts) |-> f_parts[i][1][1] - 1]

\* lines 40, 44-45: int(indices[1]) - 1 for the corners that have a
\* non-empty second field
RECURSIVE FaceUvs(_)
FaceUvs(f_parts) ==
    IF f_parts = <<>> THEN <<>>
    ELSE LET indices == Head(f_parts)
         IN  (IF Len(indices) > 1 /\ indices[2] # <<>>
              THEN <<indices[2][1] - 1>> ELSE <<>>) \o FaceUvs(Tail(f_parts))

\* lines 28-48: the body of the loop, for one line
ParseLine(line, acc) ==
    CASE line.tag = "v" ->
            [acc EXCEPT !.vertices = Append(@, Take(line.nums, 3))]
      [] line.tag = "vt" ->
            [acc EXCEPT !.uvs = Append(@, Take(line.nums, 2))]
      [] line.tag = "f" ->
            LET face_uvs == FaceUvs(line.parts)
            IN  [acc EXCEPT !.faces = Append(@, FaceVertices(line.parts)),
                            !.uv_indices = IF face_uvs # <<>>
                                           THEN Append(@, face_uvs) ELSE @]
      [] OTHER -> acc

\* lines 27-48: the loop
RECURSIVE ParseLines(_, _)
ParseLines(ls, acc) ==
    IF ls = <<>> THEN acc ELSE ParseLines(Tail(ls), ParseLine(Head(ls), acc))

\* torch.tensor(rows) accepts a list of rows only when they have one length
IsRectangular(rows) == \A i, j \in DOMAIN rows : Len(rows[i]) = Len(rows[j])

\* a variant of line 54 that looks at the face UV indices only
KeepsUv_NoVtCheck(uvs, uv_indices) == uv_indices # <<>>

\* line 54: UV data is kept when there are vt lines and face UV indices
KeepsUv(uvs, uv_indices) == uvs # <<>> /\ uv_indices # <<>>

\* what kal.io.off.import_mesh can return (lines 71-73)
OffMeshes ==
    { [vertices |-> <<<<0, 0, 0>>, <<2, 0, 0>>, <<0, 2, 0>>>>, faces |-> <<<<0, 1, 2>>>>],
      [vertices |-> <<<<1, 1, 1>>>>, faces |-> <<>>] }

----------------------------------------------------------------------------
(* normalize_mesh, lines 142-150                                           *)

Cols(verts) == 1..Len(verts[1])

\* line 144: verts.mean(dim=0)
Mean(verts) ==
    [j \in Cols(verts) |->
        RMul(RSum([i \in 1..Len(verts) |-> RInt(verts[i][j])]), Rat(1, Len(verts)))]

\* a variant of line 145 that leaves the vertices where they are
Centered_NoShift(verts, center) ==
    [i \in 1..Len(verts) |-> [j \in Cols(verts) |-> RInt(verts[i][j])]]

\* line 145: verts - self.original_center
Centered(verts, center) ==
    [i \in 1..Len(verts) |-> [j \in Cols(verts) |-> RSub(RInt(verts[i][j]), center[j])]]

\* line 146: the square of torch.max(torch.norm(verts, p=2, dim=1))
MaxNormSq(rows) ==
    RMax([i \in 1..Len(rows) |->
            RSum([j \in 1..Len(rows[i]) |-> RMul(rows[i][j], rows[i][j])])])

\* line 147: verts / self.original_scale, the scale given by its square
DivideByScale(rows, sq) ==
    [i \in 1..Len(rows) |-> [j \in 1..Len(rows[i]) |-> DivBySqrt(rows[i][j], sq)]]

\* line 148: verts *= target_scale
ScaleBy(rows, ts) ==
    [i \in 1..Len(rows) |-> [j \in 1..Len(rows[i]) |-> MulBy(rows[i][j], RInt(ts))]]

\* line 149: verts[:, 1] += mesh_dy
AddOffset(rows, dy) ==
    [i \in 1..Len(rows) |->
        [j \in 1..Len(rows[i]) |->
            IF j = 2 THEN AddTo(rows[i][j], RInt(dy)) ELSE rows[i][j]]]

\* lines 142-150.  An empty vertex list is a 1-D tensor, on which
\* torch.norm(..., dim=1) raises IndexError.
NormalizeMesh(verts, ts, dy) ==
    IF verts = <<>>
    THEN [err |-> "IndexError", vertices |-> <<>>, center |-> <<>>, scale_sq |-> RInt(0)]
    ELSE LET center == Mean(verts)
             rows   == Centered(verts, center)
             sq     == MaxNormSq(rows)
         IN  [err |-> "",
              vertices |-> AddOffset(ScaleBy(DivideByScale(rows, sq), ts), dy),
              center |-> center,
              scale_sq |-> sq]

----------------------------------------------------------------------------
(* has_valid_uv_mapping, lines 93-106.  ft.min() of a tensor without       *)
(* elements raises RuntimeError.                                           *)

FtEntries(rows) == UNION {Range(rows[i]) : i \in DOMAIN rows}

SetMin(S) == CHOOSE x \in S : \A y \in S : x <= y

HasValidUvMapping(vt_, ft_) ==
    IF IsNone(vt_) \/ IsNone(ft_) THEN "False"
    ELSE IF Len(vt_[1]) = 0 THEN "False"
    ELSE IF FtEntries(ft_[1]) = {} THEN "RuntimeError"
    ELSE IF SetMin(FtEntries(ft_[1])) <= -1 THEN "False"
    ELSE "True"

----------------------------------------------------------------------------
(* Artifact relocation, lines 82-91                                        *)

\* a variant of line 82 that ignores is_convert
ShouldRelocate_DirOnly(conv, dir) == ~IsNone(dir)

\* line 82
ShouldRelocate(conv, dir) == conv /\ ~IsNone(dir)

Mv(src, dst) == [op |-> "mv", src |-> src, dst |-> dst]

Makedirs(dir) == [op |-> "makedirs", src |-> dir, dst |-> dir]

\* lines 83-89: the commands issued before line 90, given what
\* os.path.exists answers for the directory and for the filtered document
RelocationCommands(path, org_path, dir, dirExists, removedExists) ==
    (IF ~dirExists THEN <<Makedirs(dir)>> ELSE <<>>)
    \o (IF removedExists
        THEN <<Mv(SplitextRoot(org_path) \o S_removed_gltf, dir)>> ELSE <<>>)
    \o (IF EndsWith(path, S_cvt_obj) THEN <<Mv(path, dir)>> ELSE <<>>)
    \o <<Mv(Join(Dirname(path), S_material_mtl), dir)>>

----------------------------------------------------------------------------
(* The inputs of the model                                                 *)

MaxLines == 4

P_obj == <<"m">> \o S_obj

P_off == <<"m">> \o S_off

P_gltf == <<"m", ".", "g", "l", "t", "f">>

P_glb == <<"m", ".", "g", "l", "b">>

D_tmp == <<"t", "m", "p">>

\* face lines: "f 1 1//1 1", "f 1/1 1/1 1/1", "f 0/0 1/1 9/1" and "f 1/1 1 1"
F_plain == FLine(<< <<<<1>>>>, <<<<1>>, <<>>, <<1>>>>, <<<<1>>>> >>)

F_uv == FLine(<< <<<<1>>, <<1>>>>, <<<<1>>, <<1>>>>, <<<<1>>, <<1>>>> >>)

F_out == FLine(<< <<<<0>>, <<0>>>>, <<<<1>>, <<1>>>>, <<<<9>>, <<1>>>> >>)

F_partial == FLine(<< <<<<1>>, <<1>>>>, <<<<1>>>>, <<<<1>>>> >>)

FaceLines == {F_plain, F_uv, F_out, F_partial}

\* the lines of the files read by the loads of Spec
LoadLines == {VLine(<<0, 0, 0>>), VLine(<<2, 0, 0>>), VtLine(<<0, 1>>)} \cup FaceLines

\* the vertex lines of the files read by the loads of SpecNorm
Coords == {<<0, 0, 0>>, <<1, 0, 0>>, <<0, 2, 0>>, <<-1, 1, 3>>}

NormLines == {VLine(c) : c \in Coords}

\* lines 13-15: the state when the constructor has initialized its locals
InitLoad(paths, fileLines, dirs, scales, offsets) ==
    /\ mesh_path \in paths
    /\ org_mesh_path = mesh_path
    /\ is_convert = FALSE
    /\ lines \in (IF Contains(mesh_path, S_obj) THEN SeqsUpTo(fileLines, MaxLines)
                  ELSE {<<>>})
    /\ intermediate_dir \in dirs
    /\ target_scale \in scales
    /\ mesh_dy \in offsets
    /\ pc = "start"
    /\ err = ""
    /\ vertices = None /\ faces = None
    /\ vt = None /\ ft = None
    /\ original_center = None /\ original_scale = None
    /\ fs_log = <<>>
    /\ uv_result = "unset"

GltfIdle ==
    /\ gltf_files = <<>>
    /\ gltf_args = <<>>
    /\ gltf_ret = "unset"

----------------------------------------------------------------------------
(* The constructor, lines 10-91, in three steps                            *)

Raise(e) ==
    /\ pc' = "failed"
    /\ err' = e

\* lines 17-77: dispatch on the path and read the geometry
Parse ==
    /\ pc = "start"
    /\ IF Contains(mesh_path, S_obj)
       THEN LET acc == ParseLines(lines, EmptyAcc)
            IN  IF ~IsRectangular(acc.vertices) \/ ~IsRectangular(acc.faces)
                THEN /\ Raise("ValueError")
                     /\ UNCHANGED <<vertices, faces, vt, ft>>
                ELSE IF KeepsUv(acc.uvs, acc.uv_indices)
                THEN IF ~IsRectangular(acc.uvs) \/ ~IsRectangular(acc.uv_indices)
                     THEN /\ Raise("ValueError")
                          /\ UNCHANGED <<vertices, faces, vt, ft>>
                     ELSE /\ vertices' = Some(acc.vertices)
                          /\ faces' = Some(acc.faces)
                          /\ vt' = Some(acc.uvs)
                          /\ ft' = Some(acc.uv_indices)
                          /\ pc' = "parsed"
                          /\ err' = err
                ELSE /\ vertices' = Some(acc.vertices)
                     /\ faces' = Some(acc.faces)
                     /\ vt' = None
                     /\ ft' = None
                     /\ pc' = "parsed"
                     /\ err' = err
       ELSE IF Contains(mesh_path, S_off)
       THEN \E mesh \in OffMeshes :
                /\ vertices' = Some(mesh.vertices)
                /\ faces' = Some(mesh.faces)
                /\ vt' = None
                /\ ft' = None
                /\ pc' = "parsed"
                /\ err' = err
       ELSE /\ Raise("ValueError")
            /\ UNCHANGED <<vertices, faces, vt, ft>>
    /\ UNCHANGED <<mesh_path, org_mesh_path, is_convert, lines, intermediate_dir,
                   target_scale, mesh_dy, original_center, original_scale,
                   fs_log, uv_result>>
    /\ UNCHANGED gltfVars

\* lines 79-80
Normalize ==
    /\ pc = "parsed"
    /\ LET r == NormalizeMesh(vertices[1], target_scale, mesh_dy)
       IN  IF r.err # ""
           THEN /\ Raise(r.err)
                /\ UNCHANGED <<vertices, original_center, original_scale>>
           ELSE /\ vertices' = Some(r.vertices)
                /\ original_center' = Some(r.center)
                /\ original_scale' = Some(r.scale_sq)
                /\ pc' = "normalized"
                /\ err' = err
    /\ UNCHANGED <<mesh_path, org_mesh_path, is_convert, lines, intermediate_dir,
                   target_scale, mesh_dy, faces, vt, ft, fs_log, uv_result>>
    /\ UNCHANGED gltfVars

\* lines 82-91.  merge_texture_path (line 90) is bound nowhere in the
\* module, so reaching line 90 raises NameError after the commands of
\* lines 83-89 have been issued.
Relocate ==
    /\ pc = "normalized"
    /\ IF ShouldRelocate(is_convert, intermediate_dir)
       THEN \E dirExists, removedExists \in BOOLEAN :
                /\ fs_log' = fs_log \o RelocationCommands(mesh_path, org_mesh_path,
                                 intermediate_dir[1], dirExists, removedExists)
                /\ Raise("NameError")
       ELSE /\ pc' = "done"
            /\ UNCHANGED <<fs_log, err>>
    /\ UNCHANGED <<mesh_path, org_mesh_path, is_convert, lines, intermediate_dir,
                   target_scale, mesh_dy, vertices, faces, vt, ft,
                   original_center, original_scale, uv_result>>
    /\ UNCHANGED gltfVars

\* a call of has_valid_uv_mapping on the constructed Mesh (lines 93-106)
CallHasValidUvMapping ==
    /\ pc = "done"
    /\ uv_result = "unset"
    /\ uv_result' = HasValidUvMapping(vt, ft)
    /\ UNCHANGED <<mesh_path, org_mesh_path, is_convert, lines, intermediate_dir,
                   target_scale, mesh_dy, pc, err, vertices, faces, vt, ft,
                   original_center, original_scale, fs_log>>
    /\ UNCHANGED gltfVars

Init ==
    /\ InitLoad({P_obj, P_off, P_gltf, P_glb}, LoadLines, {None, Some(D_tmp)}, {1}, {0})
    /\ GltfIdle

Next ==
    \/ Parse
    \/ Normalize
    \/ Relocate
    \/ CallHasValidUvMapping

Spec == Init /\ [][Next]_vars

InitNorm ==
    /\ InitLoad({P_obj}, NormLines, {None}, {1, 2}, {-1, 0})
    /\ GltfIdle

SpecNorm == InitNorm /\ [][Next]_vars

----------------------------------------------------------------------------
(* What the file says, read off its lines without the parser               *)

IsObjLoad == Contains(mesh_path, S_obj)

Loaded == pc = "done"

\* some face line carries a non-empty UV field in some corner
FileHasFaceUv ==
    \E i \in DOMAIN lines :
        /\ lines[i].tag = "f"
        /\ \E c \in DOMAIN lines[i].parts :
              Len(lines[i].parts[c]) > 1 /\ lines[i].parts[c][2] # <<>>

FileHasVt == \E i \in DOMAIN lines : lines[i].tag = "vt"

FileVertexCount == Cardinality({i \in DOMAIN lines : lines[i].tag = "v"})

\* the 1-based vertex indices the face lines name
FileFaceIndices ==
    {lines[i].parts[c][1][1] :
        i \in {k \in DOMAIN lines : lines[k].tag = "f"}, c \in 1..3}

UvAbsent == IsNone(vt) /\ IsNone(ft)

UvPresent == ~IsNone(vt) /\ ~IsNone(ft)

----------------------------------------------------------------------------
(* Claims about the constructor                                            *)

\* C2: after a successful load uv_coordinates and uv_faces are both present
\* or both absent, and when present uv_faces has as many triples as faces.
C2_UvFacesParallelToFaces ==
    Loaded =>
        /\ (UvAbsent \/ UvPresent)
        /\ (UvPresent => Len(ft[1]) = Len(faces[1]))

\* C3: after a successful load of an OBJ file every entry of faces is a
\* valid 0-based vertex index; a face line naming an index outside
\* 1..number of vertex lines makes the load fail.
C3_FacesIndexVertices ==
    (Loaded /\ IsObjLoad) =>
        /\ \A i \in DOMAIN faces[1] : \A k \in DOMAIN faces[1][i] :
              0 <= faces[1][i][k] /\ faces[1][i][k] < Len(vertices[1])
        /\ \A x \in FileFaceIndices : 1 <= x /\ x <= FileVertexCount

\* C6: a load of a path with no native extension fails as unsupported only
\* after a conversion has been attempted.
C6_UnsupportedOnlyAfterConversion ==
    (pc = "failed" /\ ~Contains(mesh_path, S_obj) /\ ~Contains(mesh_path, S_off)) =>
        is_convert

\* C9: files are moved and the directory is created only in a load that
\* converted the format and was given intermediate_dir, and only once
\* normalization has completed; a load without conversion issues no
\* file-system command, whatever intermediate_dir is.
C9_RelocationOnlyAfterConversion ==
    /\ fs_log # <<>> =>
          /\ is_convert
          /\ ~IsNone(intermediate_dir)
          /\ ~IsNone(original_scale)
          /\ pc \notin {"start", "parsed", "normalized"}
    /\ ~is_convert => fs_log = <<>>

\* C9 witness: a native load given intermediate_dir has completed
C9_Witness ==
    /\ Loaded
    /\ IsObjLoad
    /\ ~IsNone(intermediate_dir)
    /\ ~IsNone(original_scale)
    /\ fs_log = <<>>

\* C10 as stated: after a successful OBJ load UV data is absent if and only
\* if no face line supplies a UV index.
C10_UvAbsentIffNoFaceUv ==
    (Loaded /\ IsObjLoad) => (UvAbsent <=> ~FileHasFaceUv)

\* C10 amended: after a successful OBJ load UV data is absent if and only if
\* the file has no vt line or no face line supplies a UV index, otherwise
\* both uv_coordinates and uv_faces are present; a file with no vt line and
\* no face UV index has has_valid_uv_mapping() false.
C10_UvAbsentIffNoVtOrNoFaceUv ==
    (Loaded /\ IsObjLoad) =>
        /\ UvAbsent <=> (~FileHasVt \/ ~FileHasFaceUv)
        /\ UvPresent <=> (FileHasVt /\ FileHasFaceUv)
        /\ (uv_result # "unset" /\ ~FileHasVt /\ ~FileHasFaceUv) => uv_result = "False"

\* C10 witness: face lines carry UV indices, the file has no vt line, and
\* the loaded asset has no UV data
C10_Witness ==
    /\ Loaded
    /\ IsObjLoad
    /\ FileHasFaceUv
    /\ ~FileHasVt
    /\ UvAbsent
    /\ uv_result = "False"

----------------------------------------------------------------------------
(* Claims about normalize_mesh                                             *)

\* the vertices the file gives, in file order
FileVertices ==
    LET vs == SelectSeq(lines, LAMBDA l : l.tag = "v")
    IN  [i \in 1..Len(vs) |-> vs[i].nums]

AllVerticesIdentical(V) == \A i, j \in DOMAIN V : V[i] = V[j]

Normalized == pc \in {"normalized", "done"}

RECURSIVE IntSum(_)
IntSum(s) == IF s = <<>> THEN 0 ELSE Head(s) + IntSum(Tail(s))

\* the squared distance of the integer point v from the rational point c
DistSq(v, c) ==
    RSum([j \in DOMAIN v |-> RMul(RSub(RInt(v[j]), c[j]), RSub(RInt(v[j]), c[j]))])

\* the squared length of the part of a stored vertex that is divided by the scale
QNormSq(row) == RSum([j \in DOMAIN row |-> RMul(row[j].q, row[j].q)])

\* C4: when all vertices of the loaded mesh are identical, normalize_mesh
\* fails and the load yields no Mesh: normalization never completes with
\* a zero original_scale or with vertices that are not finite numbers.
C4_DegenerateMeshFails ==
    (IsObjLoad /\ Normalized) =>
        /\ ~AllVerticesIdentical(FileVertices)
        /\ original_scale[1].n # 0
        /\ \A i \in DOMAIN vertices[1] : \A j \in DOMAIN vertices[1][i] :
              vertices[1][i][j].k = "fin"

\* C5: for a mesh whose vertices are not all identical, target_scale > 0
\* and any mesh_dy, normalize_mesh stores
\* target_scale * (v - mean) / max_norm(v - mean) with mesh_dy added to the
\* second component only; before the offset the vertex mean is zero and
\* the largest vertex norm is target_scale; original_center is the mean and
\* original_scale the largest norm of the centred input.
C5_NormalizedVertices ==
    (IsObjLoad /\ Normalized /\ ~AllVerticesIdentical(FileVertices)) =>
        LET V  == FileVertices
            n  == Len(V)
            W  == vertices[1]
            c  == original_center[1]
            sq == original_scale[1]
            ts == RInt(target_scale)
        IN  /\ Len(W) = n
            \* original_center is the per-axis mean of the input
            /\ \A j \in 1..3 : c[j].n * n = c[j].d * IntSum([i \in 1..n |-> V[i][j]])
            \* original_scale is the largest distance from it, before target_scale
            /\ \A i \in 1..n : ~RLess(sq, DistSq(V[i], c))
            /\ \E i \in 1..n : DistSq(V[i], c) = sq
            \* every stored component is offset + target_scale * (v - mean) / scale
            /\ \A i \in 1..n : \A j \in 1..3 :
                  /\ W[i][j].k = "fin"
                  /\ W[i][j].r = sq
                  /\ W[i][j].q = RMul(ts, RSub(RInt(V[i][j]), c[j]))
                  /\ W[i][j].p = RInt(IF j = 2 THEN mesh_dy ELSE 0)
            \* without the offset the mean is the zero vector
            /\ \A j \in 1..3 : RSum([i \in 1..n |-> W[i][j].q]) = RInt(0)
            \* and the largest norm is target_scale
            /\ \A i \in 1..n : ~RLess(RMul(RMul(ts, ts), sq), QNormSq(W[i]))
            /\ \E i \in 1..n : QNormSq(W[i]) = RMul(RMul(ts, ts), sq)

\* C5 witness: three distinct vertices with a mean off the integer grid,
\* normalized with target_scale 2 and a non-zero mesh_dy
C5_Witness ==
    /\ Loaded
    /\ IsObjLoad
    /\ Len(vertices[1]) = 3
    /\ ~AllVerticesIdentical(FileVertices)
    /\ original_center[1][1].d > 1
    /\ target_scale = 2
    /\ mesh_dy = -1
    /\ vertices[1][1][2].p = RInt(-1)
    /\ vertices[1][1][1].q.n # 0

----------------------------------------------------------------------------
(* preprocess_gltf, lines 108-140.  A document is a record of its meshes,  *)
(* materials, buffers and the rest ("asset"); a key that a primitive or a  *)
(* buffer may lack ("material", "uri") is an optional value.               *)

Ok(v) == [err |-> "", val |-> v]

Failed(e) == [err |-> e, val |-> <<>>]

\* a variant of lines 117, 130 that misses a match at index 0
NameMatches_NotAtStart(name, part) == Find(name, part) > 0

\* lines 117, 130: name.find(part) >= 0
NameMatches(name, part) == Find(name, part) >= 0

\* lines 116-119, 129-132: the inner loop, which stops at the first match
MatchesAny(name, parts) == \E k \in DOMAIN parts : NameMatches(name, parts[k])

\* lines 112-121: the primitives kept, or the exception raised on the way:
\* KeyError for a primitive without "material", IndexError for a material
\* index past the end of the material list
RECURSIVE FilterPrimitives(_, _, _)
FilterPrimitives(primitives, materials, remove_mesh_part_names) ==
    IF primitives = <<>> THEN Ok(<<>>)
    ELSE LET primitive == Head(primitives)
         IN  IF IsNone(primitive.material) THEN Failed("KeyError")
             ELSE IF primitive.material[1] >= Len(materials) THEN Failed("IndexError")
             ELSE LET material_name == materials[primitive.material[1] + 1].name
                      rest == FilterPrimitives(Tail(primitives), materials,
                                               remove_mesh_part_names)
                  IN  IF rest.err # "" THEN rest
                      ELSE IF MatchesAny(material_name, remove_mesh_part_names)
                      THEN rest
                      ELSE Ok(<<primitive>> \o rest.val)

\* lines 126-134: the buffers kept; buffer["uri"] is read once per entry of
\* the exclusion list, so a buffer without "uri" raises KeyError only when
\* the list is not empty
RECURSIVE FilterBuffers(_, _)
FilterBuffers(buffers, remove_unsupported_buffers) ==
    IF buffers = <<>> THEN Ok(<<>>)
    ELSE LET buffer == Head(buffers)
         IN  IF remove_unsupported_buffers # <<>> /\ IsNone(buffer.uri)
             THEN Failed("KeyError")
             ELSE LET rest == FilterBuffers(Tail(buffers), remove_unsupported_buffers)
                  IN  IF rest.err # "" THEN rest
                      ELSE IF /\ remove_unsupported_buffers # <<>>
                              /\ MatchesAny(buffer.uri[1], remove_unsupported_buffers)
                      THEN rest
                      ELSE Ok(<<buffer>> \o rest.val)

\* a variant of line 137 that writes over the source
UpdatedMeshPath_InPlace(path) == path

\* line 137
UpdatedMeshPath(path) == SplitextRoot(path) \o S_removed_gltf

\* lines 110-135: the document after both steps, or the exception
FilteredDocument(gltf_json, remove_mesh_part_names, remove_unsupported_buffers) ==
    LET prims == IF IsNone(remove_mesh_part_names)
                 THEN Ok(gltf_json.meshes[1].primitives)
                 ELSE FilterPrimitives(gltf_json.meshes[1].primitives,
                                       gltf_json.materials, remove_mesh_part_names[1])
        step1 == [gltf_json EXCEPT !.meshes[1].primitives = prims.val]
        bufs  == IF IsNone(remove_unsupported_buffers)
                 THEN Ok(step1.buffers)
                 ELSE FilterBuffers(step1.buffers, remove_unsupported_buffers[1])
    IN  IF prims.err # "" THEN Failed(prims.err)
        ELSE IF bufs.err # "" THEN Failed(bufs.err)
        ELSE Ok([step1 EXCEPT !.buffers = bufs.val])

\* open(path, "w") followed by json.dump
WriteFile(files, path, doc) ==
    [q \in DOMAIN files \cup {path} |-> IF q = path THEN doc ELSE files[q]]

\* lines 108-140
PreprocessGltf ==
    /\ gltf_ret.err = "unset"
    /\ LET path == gltf_args.mesh_path
           r == FilteredDocument(gltf_files[path], gltf_args.remove_mesh_part_names,
                                 gltf_args.remove_unsupported_buffers)
       IN  IF r.err # ""
           THEN /\ gltf_ret' = [err |-> r.err, path |-> <<>>]
                /\ UNCHANGED gltf_files
           ELSE /\ gltf_files' = WriteFile(gltf_files, UpdatedMeshPath(path), r.val)
                /\ gltf_ret' = [err |-> "", path |-> UpdatedMeshPath(path)]
    /\ UNCHANGED gltf_args
    /\ UNCHANGED loadVars

----------------------------------------------------------------------------
(* The documents and exclusion lists of SpecGltf                           *)

MaxItems == 2

MaxExcl == 1

G_m == <<"m", ".", "g", "l", "t", "f">>

G_m_removed == <<"m">> \o S_removed_gltf

MaterialTables ==
    { << [name |-> <<"w">>], [name |-> <<"x", "w">>] >>,
      << [name |-> <<"W", "x">>] >> }

PrimitiveLists ==
    UNION { { [i \in 1..m |-> [material |-> f[i], indices |-> i]] :
                f \in [1..m -> {Some(0), Some(1), None}] } : m \in 0..MaxItems }

BufferLists ==
    UNION { { [i \in 1..m |-> [uri |-> f[i], byteLength |-> i]] :
                f \in [1..m -> {Some(<<"w">>), Some(<<"x">>), None}] } : m \in 0..MaxItems }

Documents ==
    { [asset |-> "2.0",
       meshes |-> << [name |-> "body", primitives |-> ps],
                     [name |-> "extra",
                      primitives |-> << [material |-> Some(0), indices |-> 0] >>] >>,
       materials |-> ms,
       buffers |-> bs] :
        ps \in PrimitiveLists, ms \in MaterialTables, bs \in BufferLists }

\* an exclusion list: absent, or a list of at most MaxExcl strings
ExclusionLists(strs) == {None} \cup {Some(l) : l \in SeqsUpTo(strs, MaxExcl)}

InitGltf ==
    /\ gltf_args \in
          [mesh_path : {G_m, G_m_removed},
           document : Documents,
           remove_mesh_part_names : ExclusionLists({<<"w">>, <<"x", "w">>, <<"W">>}),
           remove_unsupported_buffers : ExclusionLists({<<"w">>, <<>>})]
    /\ gltf_files = [q \in {gltf_args.mesh_path} |-> gltf_args.document]
    /\ gltf_ret = [err |-> "unset", path |-> <<>>]
    /\ mesh_path = <<>> /\ org_mesh_path = <<>> /\ is_convert = FALSE
    /\ lines = <<>> /\ intermediate_dir = None
    /\ target_scale = 1 /\ mesh_dy = 0
    /\ pc = "idle" /\ err = ""
    /\ vertices = None /\ faces = None /\ vt = None /\ ft = None
    /\ original_center = None /\ original_scale = None
    /\ fs_log = <<>> /\ uv_result = "unset"

NextGltf == PreprocessGltf

SpecGltf == InitGltf /\ [][NextGltf]_vars

----------------------------------------------------------------------------
(* Claims about preprocess_gltf                                            *)

\* part occurs in s, compared character by character
IsSubstring(part, s) ==
    \E i \in 1..(Len(s) + 1) :
        /\ i + Len(part) - 1 <= Len(s)
        /\ \A k \in 1..Len(part) : s[i + k - 1] = part[k]

GltfWritten == gltf_ret.err = ""

GltfSource == gltf_args.document

GltfOutput == gltf_files[gltf_ret.path]

\* the name of the material a primitive of the source refers to
MaterialNameOf(primitive) == GltfSource.materials[primitive.material[1] + 1].name

\* C7: the written document's first-mesh primitives are exactly the source
\* primitives whose material name contains no entry of
\* remove_mesh_part_names, in their order, and its buffers are exactly the
\* source buffers whose uri contains no entry of remove_unsupported_buffers,
\* in their order.
C7_FilteredSubsequences ==
    GltfWritten =>
        /\ ~IsNone(gltf_args.remove_mesh_part_names) =>
              GltfOutput.meshes[1].primitives =
                  SelectSeq(GltfSource.meshes[1].primitives,
                            LAMBDA pr : \A part \in Range(gltf_args.remove_mesh_part_names[1]) :
                                            ~IsSubstring(part, MaterialNameOf(pr)))
        /\ ~IsNone(gltf_args.remove_unsupported_buffers) =>
              GltfOutput.buffers =
                  SelectSeq(GltfSource.buffers,
                            LAMBDA b : \A part \in Range(gltf_args.remove_unsupported_buffers[1]) :
                                            ~IsSubstring(part, b.uri[1]))

\* C7 witness: of two primitives the one whose material name starts with an
\* excluded string was dropped, and of two buffers one was dropped
C7_Witness ==
    /\ GltfWritten
    /\ gltf_args.remove_mesh_part_names = Some(<< <<"w">> >>)
    /\ gltf_args.remove_unsupported_buffers = Some(<< <<"w">> >>)
    /\ Len(GltfSource.meshes[1].primitives) = 2
    /\ GltfSource.materials[1].name = <<"w">>
    /\ GltfSource.meshes[1].primitives[2].material = Some(0)
    /\ Len(GltfOutput.meshes[1].primitives) = 0
    /\ Len(GltfSource.buffers) = 2
    /\ Len(GltfOutput.buffers) = 1

\* C8: with remove_mesh_part_names absent the written primitives are the
\* source's, with remove_unsupported_buffers absent the written buffers are
\* the source's; every other part of the document is unchanged, the output
\* path differs from the source path and the source file keeps its content.
C8_AbsentListsAndFrame ==
    /\ gltf_files[gltf_args.mesh_path] = GltfSource
    /\ GltfWritten =>
          /\ gltf_ret.path # gltf_args.mesh_path
          /\ DOMAIN gltf_files = {gltf_args.mesh_path, gltf_ret.path}
          /\ IsNone(gltf_args.remove_mesh_part_names) =>
                GltfOutput.meshes[1].primitives = GltfSource.meshes[1].primitives
          /\ IsNone(gltf_args.remove_unsupported_buffers) =>
                GltfOutput.buffers = GltfSource.buffers
          /\ GltfOutput.asset = GltfSource.asset
          /\ GltfOutput.materials = GltfSource.materials
          /\ GltfOutput.meshes[1].name = GltfSource.meshes[1].name
          /\ GltfOutput.meshes[2] = GltfSource.meshes[2]
          /\ Len(GltfOutput.meshes) = Len(GltfSource.meshes)

\* C8 witness: a call with one list absent that dropped something from the
\* other list, on a source whose name already ends in "_removed.gltf"
C8_Witness ==
    /\ GltfWritten
    /\ gltf_args.mesh_path = G_m_removed
    /\ IsNone(gltf_args.remove_mesh_part_names)
    /\ ~IsNone(gltf_args.remove_unsupported_buffers)
    /\ Len(GltfSource.meshes[1].primitives) = 2
    /\ Len(GltfOutput.buffers) < Len(GltfSource.buffers)

----------------------------------------------------------------------------
(* has_valid_uv_mapping on any Mesh: vt and ft are public attributes, so   *)
(* the query is checked for every value they can be given.                 *)

MaxUv == 2

UvCoords == {<<0, 0>>, <<1, 0>>}

UvIndices == {-1, 0, 2}

VtStates == {None} \cup {Some(s) : s \in SeqsUpTo(UvCoords, MaxUv)}

FtStates ==
    {None} \cup {Some(s) : s \in SeqsUpTo([1..3 -> UvIndices], MaxUv)}

InitUV ==
    /\ vt \in VtStates
    /\ ft \in FtStates
    /\ pc = "done"
    /\ uv_result = "unset"
    /\ mesh_path = P_off /\ org_mesh_path = P_off /\ is_convert = FALSE
    /\ lines = <<>> /\ intermediate_dir = None
    /\ target_scale = 1 /\ mesh_dy = 0
    /\ err = ""
    /\ vertices = None /\ faces = None
    /\ original_center = None /\ original_scale = None
    /\ fs_log = <<>>
    /\ GltfIdle

NextUV == CallHasValidUvMapping

SpecUV == InitUV /\ [][NextUV]_vars

\* C1: for every Mesh state has_valid_uv_mapping() returns true if and only
\* if vt is present, ft is present, vt has at least one entry and the
\* minimum index in ft is >= 0; in every other case it returns false, and
\* it never raises.
C1_ValidUvIffPresentNonEmptyNonNegative ==
    uv_result # "unset" =>
        /\ uv_result \in {"True", "False"}
        /\ uv_result = "True" <=>
              /\ ~IsNone(vt)
              /\ ~IsNone(ft)
              /\ Len(vt[1]) >= 1
              /\ \A i \in DOMAIN ft[1] : \A k \in DOMAIN ft[1][i] : ft[1][i][k] >= 0

============================================================================
